---- MODULE Spec2Model ----
(***************************************************************************)
(* A model of scripts/find-pending-retryables.ts: one run of main, from    *)
(* the environment check to the report, with the child-chain receipt       *)
(* lookups of the pairs completing in any order.                           *)
(*                                                                         *)
(* Hex strings ('0x...') are sequences of characters: a hex digit is its   *)
(* value 0..15 and the letter x is XChar.  Byte arrays are sequences of    *)
(* 0..255.  A bigint is a natural number.  A hash is the record            *)
(* [keccak256 |-> preimage]: keccak256 is taken to be collision free.      *)
(***************************************************************************)
EXTENDS Integers, Sequences, FiniteSets, TLC

\* ------------------------------------------------------------ bounds
MaxEvents == 2
MaxMatches == 2
MaxLogs == 2
MaxBlockGap == 1
MaxNumber == 256
MaxCallData == 2
NonZeroByte == 171
MaxRollups == 2
RollupsChainHead == 400000
RollupsFromBlock == 399990

\* ------------------------------------------------ program constants
RetryableKind == 9
TxType == 105
SlotBytes == 32
AddressBytes == 20
FieldCount == 9

\* ------------------------------------------------------ hex strings
XChar == 16

Hex(digits) == <<0, XChar>> \o digits

Digits(hex) == SubSeq(hex, 3, Len(hex))

Zeros(n) == [i \in 1..n |-> 0]

SetMin(S) == CHOOSE m \in S : \A k \in S : m <= k

RECURSIVE NatDigits(_)
NatDigits(n) == IF n < 16 THEN <<n>> ELSE NatDigits(n \div 16) \o <<n % 16>>

\* viem toHex(bigint): '0x' + value.toString(16)
toHex(value) == Hex(NatDigits(value))

\* viem trim(hex): drops leading '0' characters, never the last character,
\* then left-pads with one '0' to an even number of characters.
trim(hex) ==
  LET data == Digits(hex)
      nonzero == {i \in 1..(Len(data) - 1) : data[i] # 0}
      sliceLength == IF Len(data) = 0 THEN 0
                     ELSE IF nonzero = {} THEN Len(data) - 1
                     ELSE SetMin(nonzero) - 1
      rest == SubSeq(data, sliceLength + 1, Len(data))
  IN  Hex(IF Len(rest) % 2 = 1 THEN <<0>> \o rest ELSE rest)

\* viem pad(hex, {size}) throws SizeExceedsPaddingSizeError on a longer value
padThrows(hex, size) == Len(Digits(hex)) > size * 2

pad(hex, size) == Hex(Zeros(size * 2 - Len(Digits(hex))) \o Digits(hex))

\* viem getAddress: the EIP-55 checksum changes letter case only, which a
\* digit's value does not record; it throws on anything but 40 hex digits.
getAddressThrows(hex) ==
  \/ Len(Digits(hex)) # AddressBytes * 2
  \/ \E i \in 1..Len(Digits(hex)) : Digits(hex)[i] = XChar

getAddress(hex) == hex

\* Number(field) == 0 of a string: '0x' is NaN, a string with a character
\* that is no hex digit is NaN, and a hex number is 0 iff all digits are 0.
NumberIsZero(field) ==
  LET d == Digits(field)
  IN  Len(d) > 0 /\ \A i \in 1..Len(d) : d[i] = 0

\* Buffer.from(s, 'hex'): decodes pairs of hex digits and stops at the
\* first pair that is not hex; a trailing single character is dropped.
BufferFromHex(s) ==
  LET n == Len(s) \div 2
      bad == {i \in 1..n : s[2 * i - 1] = XChar \/ s[2 * i] = XChar}
      k == IF bad = {} THEN n ELSE SetMin(bad) - 1
  IN  [i \in 1..k |-> s[2 * i - 1] * 16 + s[2 * i]]

\* ------------------------------------------------------------- RLP
RECURSIVE BigEndian(_)
BigEndian(n) == IF n < 256 THEN <<n>> ELSE BigEndian(n \div 256) \o <<n % 256>>

RlpItem(bytes) ==
  IF Len(bytes) = 1 /\ bytes[1] < 128 THEN bytes
  ELSE IF Len(bytes) <= 55 THEN <<128 + Len(bytes)>> \o bytes
  ELSE <<183 + Len(BigEndian(Len(bytes)))>> \o BigEndian(Len(bytes)) \o bytes

RECURSIVE Flatten(_)
Flatten(seqs) == IF seqs = <<>> THEN <<>> ELSE Head(seqs) \o Flatten(Tail(seqs))

\* viem toRlp of a list of byte arrays
toRlp(items) ==
  LET payload == Flatten([i \in 1..Len(items) |-> RlpItem(items[i])])
  IN  IF Len(payload) <= 55 THEN <<192 + Len(payload)>> \o payload
      ELSE <<247 + Len(BigEndian(Len(payload)))>> \o BigEndian(Len(payload)) \o payload

keccak256(bytes) == [keccak256 |-> bytes]

\* ------------------------------------------------- parseMessageData
\* The value of a string of hex digits
RECURSIVE DigitsValue(_)
DigitsValue(d) ==
  IF Len(d) = 0 THEN 0 ELSE DigitsValue(SubSeq(d, 1, Len(d) - 1)) * 16 + d[Len(d)]

\* Leading zeros add nothing: only the significant digits are summed
HexToNat(d) ==
  LET nonzero == {i \in 1..Len(d) : d[i] # 0}
  IN  IF nonzero = {} THEN 0 ELSE DigitsValue(SubSeq(d, SetMin(nonzero), Len(d)))

\* viem decodeAbiParameters of nine uint256: the k-th 32-byte word.  It throws
\* (AbiDecodingZeroDataError, AbiDecodingDataSizeTooSmallError,
\* PositionOutOfBoundsError) when the data holds fewer than nine words.
decodeAbiParametersThrows(rawMessageData) ==
  Len(Digits(rawMessageData)) \div 2 < FieldCount * SlotBytes

decodeAbiParameters(rawMessageData) ==
  [k \in 1..FieldCount |->
     HexToNat(SubSeq(Digits(rawMessageData),
                     (k - 1) * SlotBytes * 2 + 1, k * SlotBytes * 2))]

\* String.prototype.substring(start): start is clamped to 0..length
substring(str, start) ==
  LET from == IF start < 0 THEN 0 ELSE IF start > Len(str) THEN Len(str) ELSE start
  IN  SubSeq(str, from + 1, Len(str))

parseMessageDataThrows(rawMessageData) ==
  \/ decodeAbiParametersThrows(rawMessageData)
  \/ LET messageDataParsed == decodeAbiParameters(rawMessageData)
     IN  \E k \in {1, 5, 6} :
            \/ padThrows(toHex(messageDataParsed[k]), AddressBytes)
            \/ getAddressThrows(pad(toHex(messageDataParsed[k]), AddressBytes))

\* parseMessageData counting the call data in bytes where the string counts
\* hex characters
parseMessageDataByteCount(rawMessageData) ==
  LET messageDataParsed == decodeAbiParameters(rawMessageData)
  IN  [destAddress |-> getAddress(pad(toHex(messageDataParsed[1]), AddressBytes)),
       orbitChainCallValue |-> messageDataParsed[2],
       callValue |-> messageDataParsed[3],
       maxSubmissionFee |-> messageDataParsed[4],
       excessFeeRefundAddress |->
         getAddress(pad(toHex(messageDataParsed[5]), AddressBytes)),
       callValueRefundAddress |->
         getAddress(pad(toHex(messageDataParsed[6]), AddressBytes)),
       gasLimit |-> messageDataParsed[7],
       maxFeePerGas |-> messageDataParsed[8],
       callDataLength |-> messageDataParsed[9],
       data |-> Hex(substring(rawMessageData,
                              Len(rawMessageData) - messageDataParsed[9]))]

parseMessageData(rawMessageData) ==
  LET messageDataParsed == decodeAbiParameters(rawMessageData)
  IN  [destAddress |-> getAddress(pad(toHex(messageDataParsed[1]), AddressBytes)),
       orbitChainCallValue |-> messageDataParsed[2],
       callValue |-> messageDataParsed[3],
       maxSubmissionFee |-> messageDataParsed[4],
       excessFeeRefundAddress |->
         getAddress(pad(toHex(messageDataParsed[5]), AddressBytes)),
       callValueRefundAddress |->
         getAddress(pad(toHex(messageDataParsed[6]), AddressBytes)),
       gasLimit |-> messageDataParsed[7],
       maxFeePerGas |-> messageDataParsed[8],
       callDataLength |-> messageDataParsed[9],
       data |-> Hex(substring(rawMessageData,
                              Len(rawMessageData) - messageDataParsed[9] * 2))]

\* -------------------------- calculateCreateRetryableTransactionHash
\* formatNumber without the trim
formatNumberUntrimmed(value) == toHex(value)

formatNumber(value) == trim(toHex(value))

retryableFields(retryableInformation) ==
  << formatNumber(retryableInformation.orbitChainId),
     pad(formatNumber(retryableInformation.messageNumber), SlotBytes),
     retryableInformation.fromAddress,
     formatNumber(retryableInformation.baseFee),
     formatNumber(retryableInformation.callValue),
     formatNumber(retryableInformation.maxFeePerGas),
     formatNumber(retryableInformation.gasLimit),
     retryableInformation.destAddress,
     formatNumber(retryableInformation.orbitChainCallValue),
     retryableInformation.callValueRefundAddress,
     formatNumber(retryableInformation.maxSubmissionFee),
     retryableInformation.excessFeeRefundAddress,
     retryableInformation.data >>

byteArrayFields(fields) ==
  [i \in 1..Len(fields) |->
     IF NumberIsZero(fields[i]) THEN <<>> ELSE BufferFromHex(Digits(fields[i]))]

calculateCreateRetryableTransactionHash(retryableInformation) ==
  LET rlpEnc == <<TxType>> \o toRlp(byteArrayFields(retryableFields(retryableInformation)))
  IN  keccak256(rlpEnc)

\* --------------------------------------------------- the environment
\* What the parent chain and the child chain may answer, within the bounds.
RedeemScheduledEventTopic == [keccak256 |-> <<1>>]

OtherEventTopic == [keccak256 |-> <<2>>]

OrbitChainId == 412346

FirstBlock == 100

OtherKind == 3

Slot(n) == Zeros(SlotBytes * 2 - Len(NatDigits(n))) \o NatDigits(n)

\* An inbox payload as Inbox.sol packs it: nine 32-byte words, then the call data
WellFormedData ==
  Hex(Slot(13) \o Slot(0) \o Slot(1) \o Slot(256) \o Slot(14) \o Slot(15)
      \o Slot(21000) \o Slot(5) \o Slot(2) \o <<10, 11, 0, 1>>)

\* A payload cut off inside the nine words
TruncatedData == Hex(Slot(13) \o Slot(0))

DataChoices == {WellFormedData, TruncatedData}

SenderAddress == pad(toHex(17), AddressBytes)

ParentTransactionHash(i) == [keccak256 |-> <<3, i>>]

RetryTxHashes == {[keccak256 |-> <<4, k>>] : k \in 1..2}

SeqsUpTo(S, n) == UNION {[1..k -> S] : k \in 0..n}

OtherLog == [topics |-> <<OtherEventTopic>>]

\* RedeemScheduled(ticketId, retryTxHash, sequenceNum, ...): three indexed arguments
RedeemScheduledLog(retryTxHash) ==
  [topics |-> <<RedeemScheduledEventTopic, [keccak256 |-> <<5>>], retryTxHash,
                [keccak256 |-> <<6>>]>>]

LogChoices == {OtherLog} \cup {RedeemScheduledLog(h) : h \in RetryTxHashes}

Absent == [kind |-> "absent"]

RpcError == [kind |-> "error"]

Outstanding == [kind |-> "outstanding"]

Receipt(status, logs) == [kind |-> "receipt", status |-> status, logs |-> logs]

CreateAnswers ==
  {Absent, RpcError}
    \cup {Receipt(st, logs) : st \in {"success", "reverted"},
                              logs \in SeqsUpTo(LogChoices, MaxLogs)}

ExecuteAnswers ==
  {Absent, RpcError} \cup {Receipt(st, <<>>) : st \in {"success", "reverted"}}

\* ------------------------------------------------------------ state
VARIABLES
  mainPc,                       \* where main is
  envComplete,                  \* every required variable of .env is set
  options,                      \* fromBlock, toBlock
  blockRange,                   \* <<blockFrom, blockTo>> once computed
  logQueries,                   \* the getLogs calls issued, in order
  inboxMessageDeliveredEvents,
  bridgeMessageDeliveredLogs,
  mapped,                       \* how many events the map has called back for
  pairs,                        \* each callback's position and locals
  lookups,                      \* the getTransactionReceipt calls issued, with their answers
  pendingRetryables,
  redeemedRetryables,
  stdout,
  stderr,
  exitCode,
  chainIndex,                   \* find-rollups: the loop's place in supportedChainIds
  ethRpc,                       \* find-rollups: ETH_RPC is set in .env
  rollupInitializedEvents,      \* find-rollups: the events of the current parent chain
  rollupsInformation            \* find-rollups: each callback's position and locals

\* The state of find-rollups that find-pending-retryables does not have
rollupVars == <<chainIndex, ethRpc, rollupInitializedEvents, rollupsInformation>>

\* The state of find-pending-retryables that find-rollups does not have
retryableVars == <<envComplete, logQueries, inboxMessageDeliveredEvents,
                   bridgeMessageDeliveredLogs, mapped, pairs, lookups,
                   pendingRetryables, redeemedRetryables>>

vars == <<mainPc, envComplete, options, blockRange, logQueries,
          inboxMessageDeliveredEvents, bridgeMessageDeliveredLogs, mapped, pairs,
          lookups, pendingRetryables, redeemedRetryables, stdout, stderr, exitCode,
          chainIndex, ethRpc, rollupInitializedEvents, rollupsInformation>>

\* find-pending-retryables runs: find-rollups has no state
NoRollups ==
  /\ chainIndex = 0
  /\ ethRpc = FALSE
  /\ rollupInitializedEvents = <<>>
  /\ rollupsInformation = <<>>

NoExit == 0 - 1

Earliest == 0

Init ==
  /\ mainPc = "env"
  /\ envComplete \in BOOLEAN
  /\ options = [fromBlock |-> 0, toBlock |-> 0]
  /\ blockRange = <<>>
  /\ logQueries = <<>>
  /\ inboxMessageDeliveredEvents = <<>>
  /\ bridgeMessageDeliveredLogs = <<>>
  /\ mapped = 0
  /\ pairs = <<>>
  /\ lookups = <<>>
  /\ pendingRetryables = <<>>
  /\ redeemedRetryables = <<>>
  /\ stdout = <<>>
  /\ stderr = <<>>
  /\ exitCode = NoExit
  /\ NoRollups

\* ------------------------------------------------------- main, the fetch
\* Lines 277-292: a missing variable ends main before any query; the caller's
\* then() exits 0.
CheckEnv ==
  /\ mainPc = "env"
  /\ IF envComplete
       THEN /\ mainPc' = "getBlockNumber"
            /\ UNCHANGED <<stdout, exitCode>>
       ELSE /\ mainPc' = "exited"
            /\ stdout' = Append(stdout, [line |-> "Some variables are missing"])
            /\ exitCode' = 0
  /\ UNCHANGED <<envComplete, options, blockRange, logQueries,
                 inboxMessageDeliveredEvents, bridgeMessageDeliveredLogs, mapped,
                 pairs, lookups, pendingRetryables, redeemedRetryables, stderr>>
  /\ UNCHANGED rollupVars

\* The parent chain's head when main asks for it
ChainHead == FirstBlock + MaxEvents * MaxBlockGap

\* Lines 318-327
GetBlockNumber ==
  /\ mainPc = "getBlockNumber"
  /\ LET currentParentChainBlock == ChainHead
         blockTo == IF options.toBlock > 0 THEN options.toBlock
                    ELSE currentParentChainBlock
         blockFrom == IF options.fromBlock > 0 THEN options.fromBlock ELSE Earliest
     IN  /\ blockRange' = <<blockFrom, blockTo>>
         /\ stdout' = Append(stdout, [line |-> "banner", blockFrom |-> blockFrom,
                                      blockTo |-> blockTo])
  /\ mainPc' = "getInboxLogs"
  /\ UNCHANGED <<envComplete, options, logQueries, inboxMessageDeliveredEvents,
                 bridgeMessageDeliveredLogs, mapped, pairs, lookups,
                 pendingRetryables, redeemedRetryables, stderr, exitCode>>
  /\ UNCHANGED rollupVars

InRange(block) == blockRange[1] <= block /\ block <= blockRange[2]

\* The InboxMessageDelivered logs of the range, in chain order: sequence numbers
\* count up from 0 and block numbers never decrease.
InboxLogChoices ==
  UNION {
    {[i \in 1..n |-> [messageNum |-> i - 1,
                      data |-> data[i],
                      transactionHash |-> ParentTransactionHash(i),
                      blockNumber |-> FirstBlock + gaps[i]]] :
       data \in [1..n -> DataChoices],
       gaps \in {g \in [1..n -> 0..(MaxEvents * MaxBlockGap)] :
                   /\ \A i \in 1..n : InRange(FirstBlock + g[i])
                   /\ \A i \in 1..(n - 1) :
                        g[i] <= g[i + 1] /\ g[i + 1] - g[i] <= MaxBlockGap
                   /\ n > 0 => g[1] = 0}} :
    n \in 0..MaxEvents}

\* Lines 330-335
GetInboxLogs ==
  /\ mainPc = "getInboxLogs"
  /\ logQueries' = Append(logQueries, [event |-> "InboxMessageDelivered",
                                       fromBlock |-> blockRange[1],
                                       toBlock |-> blockRange[2]])
  /\ \E events \in InboxLogChoices :
        /\ inboxMessageDeliveredEvents' = events
        /\ pairs' = [i \in 1..Len(events) |->
                       [pc |-> "notCalled",
                        messageData |-> <<>>,
                        createRetryableTransactionHash |-> <<>>,
                        executeRetryableTransactionHash |-> <<>>]]
  /\ mainPc' = "getBridgeLogs"
  /\ UNCHANGED <<envComplete, options, blockRange, bridgeMessageDeliveredLogs,
                 mapped, lookups, pendingRetryables, redeemedRetryables, stdout,
                 stderr, exitCode>>
  /\ UNCHANGED rollupVars

\* The MessageDelivered logs of the bridge for one sequence number: none, one or
\* several, of any kind.  The k-th carries base fee k - 1.
AccountingEvents(messageIndex, kinds) ==
  [k \in 1..Len(kinds) |-> [messageIndex |-> messageIndex,
                            kind |-> kinds[k],
                            sender |-> SenderAddress,
                            baseFeeL1 |-> k - 1]]

BridgeLogChoices ==
  {Flatten([m \in 1..MaxEvents |-> AccountingEvents(m - 1, kinds[m])]) :
     kinds \in [1..MaxEvents -> SeqsUpTo({RetryableKind, OtherKind}, MaxMatches)]}

\* GetBridgeLogs with the range worked out again: without a toBlock option the
\* second query runs to the parent chain's head of its own moment, a block on
GetBridgeLogsToLatest ==
  /\ mainPc = "getBridgeLogs"
  /\ logQueries' = Append(logQueries,
                          [event |-> "MessageDelivered",
                           fromBlock |-> blockRange[1],
                           toBlock |-> IF options.toBlock > 0 THEN options.toBlock
                                       ELSE ChainHead + 1])
  /\ \E logs \in BridgeLogChoices : bridgeMessageDeliveredLogs' = logs
  /\ mainPc' = "map"
  /\ UNCHANGED <<envComplete, options, blockRange, inboxMessageDeliveredEvents,
                 mapped, pairs, lookups, pendingRetryables, redeemedRetryables,
                 stdout, stderr, exitCode>>
  /\ UNCHANGED rollupVars

\* Lines 336-349
GetBridgeLogs ==
  /\ mainPc = "getBridgeLogs"
  /\ logQueries' = Append(logQueries, [event |-> "MessageDelivered",
                                       fromBlock |-> blockRange[1],
                                       toBlock |-> blockRange[2]])
  /\ \E logs \in BridgeLogChoices : bridgeMessageDeliveredLogs' = logs
  /\ mainPc' = "map"
  /\ UNCHANGED <<envComplete, options, blockRange, inboxMessageDeliveredEvents,
                 mapped, pairs, lookups, pendingRetryables, redeemedRetryables,
                 stdout, stderr, exitCode>>
  /\ UNCHANGED rollupVars

\* ------------------------------------------ main, one callback per event
Rejected(i) == pairs[i].pc = "rejected"

SomeRejected == \E i \in 1..Len(pairs) : Rejected(i)

\* Lines 363-367: the accounting events with the delivery event's sequence number
MatchingBridgeLogs(messageNum) ==
  SelectSeq(bridgeMessageDeliveredLogs, LAMBDA event : event.messageIndex = messageNum)

\* RetryableInformation with the two call values taken for each other
RetryableInformationSwapped(bridgeArgs, messageData) ==
  [orbitChainId |-> OrbitChainId,
   fromAddress |-> bridgeArgs.sender,
   messageNumber |-> bridgeArgs.messageIndex,
   baseFee |-> bridgeArgs.baseFeeL1,
   destAddress |-> messageData.destAddress,
   orbitChainCallValue |-> messageData.callValue,
   callValue |-> messageData.orbitChainCallValue,
   maxSubmissionFee |-> messageData.maxSubmissionFee,
   excessFeeRefundAddress |-> messageData.excessFeeRefundAddress,
   callValueRefundAddress |-> messageData.callValueRefundAddress,
   gasLimit |-> messageData.gasLimit,
   maxFeePerGas |-> messageData.maxFeePerGas,
   data |-> messageData.data]

\* Lines 378-392
RetryableInformation(bridgeArgs, messageData) ==
  [orbitChainId |-> OrbitChainId,
   fromAddress |-> bridgeArgs.sender,
   messageNumber |-> bridgeArgs.messageIndex,
   baseFee |-> bridgeArgs.baseFeeL1,
   destAddress |-> messageData.destAddress,
   orbitChainCallValue |-> messageData.orbitChainCallValue,
   callValue |-> messageData.callValue,
   maxSubmissionFee |-> messageData.maxSubmissionFee,
   excessFeeRefundAddress |-> messageData.excessFeeRefundAddress,
   callValueRefundAddress |-> messageData.callValueRefundAddress,
   gasLimit |-> messageData.gasLimit,
   maxFeePerGas |-> messageData.maxFeePerGas,
   data |-> messageData.data]

\* PendingRetryable reading the first delivery event instead of the callback's own
PendingRetryableOfFirstEvent(i, executeHash, status) ==
  [parentChainTransactionHash |-> inboxMessageDeliveredEvents[1].transactionHash,
   submittedAtBlock |-> inboxMessageDeliveredEvents[1].blockNumber,
   orbitChainCreateTransactionHash |-> pairs[i].createRetryableTransactionHash[1],
   orbitChainExecuteTransactionHash |-> executeHash,
   status |-> status]

\* An entry of pendingRetryables.  The optional execute hash is a sequence of
\* at most one hash.
PendingRetryable(i, executeHash, status) ==
  [parentChainTransactionHash |-> inboxMessageDeliveredEvents[i].transactionHash,
   submittedAtBlock |-> inboxMessageDeliveredEvents[i].blockNumber,
   orbitChainCreateTransactionHash |-> pairs[i].createRetryableTransactionHash[1],
   orbitChainExecuteTransactionHash |-> executeHash,
   status |-> status]

\* An entry of redeemedRetryables: it has no status field
RedeemedRetryable(i, executeHash) ==
  [parentChainTransactionHash |-> inboxMessageDeliveredEvents[i].transactionHash,
   submittedAtBlock |-> inboxMessageDeliveredEvents[i].blockNumber,
   orbitChainCreateTransactionHash |-> pairs[i].createRetryableTransactionHash[1],
   orbitChainExecuteTransactionHash |-> executeHash]

\* IsSubmitRetryableTx with an ordering test in place of the equality test
IsSubmitRetryableTxUpToKind(bridgeArgs) == bridgeArgs.kind <= RetryableKind

\* Lines 369-372: only message kind 9 is a retryable submission
IsSubmitRetryableTx(bridgeArgs) == bridgeArgs.kind = RetryableKind

\* Lines 354-397: the callback of event mapped + 1, up to its first await or its
\* return.  A throw rejects the callback's promise; the map goes on.
MapCallback ==
  /\ mainPc = "map"
  /\ mapped < Len(inboxMessageDeliveredEvents)
  /\ LET i == mapped + 1
         args == inboxMessageDeliveredEvents[i]
         matches == MatchingBridgeLogs(args.messageNum)
     IN  IF matches = <<>>
           THEN \* filter(...)[0] is undefined: reading .args throws a TypeError
                /\ pairs' = [pairs EXCEPT ![i].pc = "rejected"]
                /\ UNCHANGED lookups
         ELSE IF ~IsSubmitRetryableTx(matches[1])
           THEN /\ pairs' = [pairs EXCEPT ![i].pc = "resolved"]
                /\ UNCHANGED lookups
         ELSE IF parseMessageDataThrows(args.data)
           THEN /\ pairs' = [pairs EXCEPT ![i].pc = "rejected"]
                /\ UNCHANGED lookups
         ELSE LET messageData == parseMessageData(args.data)
                  hash == calculateCreateRetryableTransactionHash(
                            RetryableInformation(matches[1], messageData))
              IN  /\ pairs' = [pairs EXCEPT ![i].pc = "awaitCreate",
                                            ![i].messageData = <<messageData>>,
                                            ![i].createRetryableTransactionHash = <<hash>>]
                  /\ lookups' = Append(lookups, [pair |-> i, hash |-> hash,
                                                 answer |-> Outstanding])
  /\ mapped' = mapped + 1
  /\ UNCHANGED <<mainPc, envComplete, options, blockRange, logQueries,
                 inboxMessageDeliveredEvents, bridgeMessageDeliveredLogs,
                 pendingRetryables, redeemedRetryables, stdout, stderr, exitCode>>
  /\ UNCHANGED rollupVars

\* Line 353: every callback has been called; main awaits Promise.all
PromiseAll ==
  /\ mainPc = "map"
  /\ mapped = Len(inboxMessageDeliveredEvents)
  /\ mainPc' = "await"
  /\ UNCHANGED <<envComplete, options, blockRange, logQueries,
                 inboxMessageDeliveredEvents, bridgeMessageDeliveredLogs, mapped,
                 pairs, lookups, pendingRetryables, redeemedRetryables, stdout,
                 stderr, exitCode>>
  /\ UNCHANGED rollupVars

\* Lines 515-520: Promise.all rejects with the first rejection, main rejects, and
\* the caller's catch prints the error and exits 1.  Nothing runs after that.
RejectAll ==
  /\ mainPc = "await"
  /\ SomeRejected
  /\ mainPc' = "exited"
  /\ stderr' = Append(stderr, [error |-> "thrown in callback",
                               pair |-> SetMin({i \in 1..Len(pairs) : Rejected(i)})])
  /\ exitCode' = 1
  /\ UNCHANGED <<envComplete, options, blockRange, logQueries,
                 inboxMessageDeliveredEvents, bridgeMessageDeliveredLogs, mapped,
                 pairs, lookups, pendingRetryables, redeemedRetryables, stdout>>
  /\ UNCHANGED rollupVars

\* OutstandingLookup with one slot shared by all callbacks: the lookup that is
\* outstanding, whichever callback issued it
OutstandingLookupOfAnyPair(i) ==
  CHOOSE k \in 1..Len(lookups) : lookups[k].answer = Outstanding

\* The one outstanding lookup of callback i
OutstandingLookup(i) ==
  CHOOSE k \in 1..Len(lookups) : lookups[k].pair = i /\ lookups[k].answer = Outstanding

\* RedeemScheduledLogs looking at the receipt's first log only
RedeemScheduledFirstLogOnly(logs) ==
  IF logs # <<>> /\ logs[1].topics[1] = RedeemScheduledEventTopic
    THEN <<logs[1]>> ELSE <<>>

\* Lines 420-422: the first log whose first topic is RedeemScheduled's
RedeemScheduledLogs(logs) ==
  SelectSeq(logs, LAMBDA log : log.topics[1] = RedeemScheduledEventTopic)

\* RetryTxHash reading the first indexed argument, ticketId
RetryTxHashFromTicketId(log) == log.topics[2]

\* Lines 435-441: decodeEventLog names the second indexed argument retryTxHash
RetryTxHash(log) == log.topics[3]

\* createStatus with the absence test folded into the status test
createStatusAbsentAsFailed(answer) ==
  IF answer = Absent \/ answer.status # "success" THEN "CREATE_FAILED"
  ELSE IF RedeemScheduledLogs(answer.logs) = <<>> THEN "NOT_AUTOREDEEMED"
  ELSE "AUTOREDEEM"

\* createStatus with the log scan ahead of the status test
createStatusLogsFirst(answer) ==
  IF answer = Absent THEN "NOT_CREATED"
  ELSE IF RedeemScheduledLogs(answer.logs) # <<>> THEN "AUTOREDEEM"
  ELSE IF answer.status # "success" THEN "CREATE_FAILED"
  ELSE "NOT_AUTOREDEEMED"

\* Lines 398-432: what the callback does with the create lookup's answer.
\* "AUTOREDEEM" stands for going on to the execute lookup.
createStatus(answer) ==
  IF answer = Absent THEN "NOT_CREATED"
  ELSE IF answer.status # "success" THEN "CREATE_FAILED"
  ELSE IF RedeemScheduledLogs(answer.logs) = <<>> THEN "NOT_AUTOREDEEMED"
  ELSE "AUTOREDEEM"

\* executeStatus without the status test
executeStatusIgnoringRevert(answer) ==
  IF answer = Absent THEN "AUTOREDEEM_CREATE_FAILED" ELSE "REDEEMED"

\* Lines 445-474: what the callback does with the execute lookup's answer
executeStatus(answer) ==
  IF answer = Absent THEN "AUTOREDEEM_CREATE_FAILED"
  ELSE IF answer.status # "success" THEN "AUTOREDEEM_FAILED"
  ELSE "REDEEMED"

\* Lines 395-444: the create receipt lookup of callback i returns, and the
\* callback runs to its return or to its second await.  A lookup that throws
\* rejects the callback, and with it Promise.all and main: exit 1.
ReceiveCreateReceipt(i) ==
  /\ mainPc = "await"
  /\ ~SomeRejected
  /\ pairs[i].pc = "awaitCreate"
  /\ \E answer \in CreateAnswers :
       LET k == OutstandingLookup(i)
           answered == [lookups EXCEPT ![k].answer = answer]
       IN  IF answer = RpcError
             THEN /\ pairs' = [pairs EXCEPT ![i].pc = "rejected"]
                  /\ lookups' = answered
                  /\ mainPc' = "exited"
                  /\ stderr' = Append(stderr, [error |-> "lookup failed", pair |-> i])
                  /\ exitCode' = 1
                  /\ UNCHANGED pendingRetryables
           ELSE IF createStatus(answer) # "AUTOREDEEM"
             THEN /\ pendingRetryables' =
                       Append(pendingRetryables,
                              PendingRetryable(i, <<>>, createStatus(answer)))
                  /\ pairs' = [pairs EXCEPT ![i].pc = "resolved"]
                  /\ lookups' = answered
                  /\ UNCHANGED <<mainPc, stderr, exitCode>>
           ELSE LET executeRetryableTransactionHash ==
                      RetryTxHash(RedeemScheduledLogs(answer.logs)[1])
                IN  /\ pairs' = [pairs EXCEPT
                                   ![i].pc = "awaitExecute",
                                   ![i].executeRetryableTransactionHash =
                                      <<executeRetryableTransactionHash>>]
                    /\ lookups' = Append(answered,
                                         [pair |-> i,
                                          hash |-> executeRetryableTransactionHash,
                                          answer |-> Outstanding])
                    /\ UNCHANGED <<mainPc, stderr, exitCode, pendingRetryables>>
  /\ UNCHANGED <<envComplete, options, blockRange, logQueries,
                 inboxMessageDeliveredEvents, bridgeMessageDeliveredLogs, mapped,
                 redeemedRetryables, stdout>>
  /\ UNCHANGED rollupVars

\* ReceiveExecuteReceipt with a retry: a lookup that throws is issued again
ReceiveExecuteReceiptRetrying(i) ==
  /\ mainPc = "await"
  /\ ~SomeRejected
  /\ pairs[i].pc = "awaitExecute"
  /\ \E answer \in ExecuteAnswers :
       LET k == OutstandingLookup(i)
           executeHash == pairs[i].executeRetryableTransactionHash
           answered == [lookups EXCEPT ![k].answer = answer]
       IN  IF answer = RpcError
             THEN /\ lookups' = Append(answered, [pair |-> i, hash |-> executeHash[1],
                                                  answer |-> Outstanding])
                  /\ UNCHANGED <<mainPc, stderr, exitCode, pairs, pendingRetryables,
                                 redeemedRetryables>>
           ELSE /\ lookups' = answered
                /\ UNCHANGED <<mainPc, stderr, exitCode>>
                /\ pairs' = [pairs EXCEPT ![i].pc = "resolved"]
                /\ IF executeStatus(answer) # "REDEEMED"
                     THEN /\ pendingRetryables' =
                               Append(pendingRetryables,
                                      PendingRetryable(i, executeHash,
                                                       executeStatus(answer)))
                          /\ UNCHANGED redeemedRetryables
                   ELSE /\ redeemedRetryables' =
                             Append(redeemedRetryables,
                                    RedeemedRetryable(i, executeHash))
                        /\ UNCHANGED pendingRetryables
  /\ UNCHANGED <<envComplete, options, blockRange, logQueries,
                 inboxMessageDeliveredEvents, bridgeMessageDeliveredLogs, mapped,
                 stdout>>
  /\ UNCHANGED rollupVars

\* Lines 442-475: the execute receipt lookup of callback i returns
ReceiveExecuteReceipt(i) ==
  /\ mainPc = "await"
  /\ ~SomeRejected
  /\ pairs[i].pc = "awaitExecute"
  /\ \E answer \in ExecuteAnswers :
       LET k == OutstandingLookup(i)
           executeHash == pairs[i].executeRetryableTransactionHash
       IN  /\ lookups' = [lookups EXCEPT ![k].answer = answer]
           /\ IF answer = RpcError
                THEN /\ pairs' = [pairs EXCEPT ![i].pc = "rejected"]
                     /\ mainPc' = "exited"
                     /\ stderr' = Append(stderr, [error |-> "lookup failed", pair |-> i])
                     /\ exitCode' = 1
                     /\ UNCHANGED <<pendingRetryables, redeemedRetryables>>
              ELSE /\ UNCHANGED <<mainPc, stderr, exitCode>>
                   /\ pairs' = [pairs EXCEPT ![i].pc = "resolved"]
                   /\ IF executeStatus(answer) # "REDEEMED"
                        THEN /\ pendingRetryables' =
                                  Append(pendingRetryables,
                                         PendingRetryable(i, executeHash,
                                                          executeStatus(answer)))
                             /\ UNCHANGED redeemedRetryables
                      ELSE /\ redeemedRetryables' =
                                Append(redeemedRetryables,
                                       RedeemedRetryable(i, executeHash))
                           /\ UNCHANGED pendingRetryables
  /\ UNCHANGED <<envComplete, options, blockRange, logQueries,
                 inboxMessageDeliveredEvents, bridgeMessageDeliveredLogs, mapped,
                 stdout>>
  /\ UNCHANGED rollupVars

\* ---------------------------------------------------- main, the report
\* Array.prototype.sort with (a, b) => Number(a.submittedAtBlock - b.submittedAtBlock):
\* ascending, and stable (entries that compare equal keep their order).
RECURSIVE Insert(_, _)
Insert(sorted, entry) ==
  IF sorted = <<>> THEN <<entry>>
  ELSE IF entry.submittedAtBlock - sorted[Len(sorted)].submittedAtBlock < 0
    THEN Append(Insert(SubSeq(sorted, 1, Len(sorted) - 1), entry), sorted[Len(sorted)])
  ELSE Append(sorted, entry)

\* sort leaving the array as it was filled
sortLeftOut(array) == array

RECURSIVE sort(_)
sort(array) ==
  IF array = <<>> THEN <<>>
  ELSE Insert(sort(SubSeq(array, 1, Len(array) - 1)), array[Len(array)])

PendingLines(sorted) ==
  IF Len(sorted) > 0
    THEN [j \in 1..Len(sorted) |-> [line |-> "pending", retryable |-> sorted[j]]]
    ELSE <<[line |-> "No pending retryables found"]>>

RedeemedLines(sorted) ==
  <<[line |-> "Retryables successfully redeemed", count |-> Len(sorted)]>>
    \o [j \in 1..Len(sorted) |->
          [line |-> "redeemed",
           parentChainTransactionHash |-> sorted[j].parentChainTransactionHash,
           orbitChainCreateTransactionHash |->
             sorted[j].orbitChainCreateTransactionHash]]

\* AllFulfilled without the awaits inside the callbacks: a callback counts as
\* done once it has been called
AllFulfilledOnceCalled == \A i \in 1..Len(pairs) : pairs[i].pc # "notCalled"

\* Lines 353 and 476: await Promise.all(...) resumes main once every callback's
\* promise is fulfilled
AllFulfilled == \A i \in 1..Len(pairs) : pairs[i].pc = "resolved"

\* Lines 478-503, then the caller's then(): exit 0.  The sorts are in place.
Report ==
  /\ mainPc = "await"
  /\ AllFulfilled
  /\ pendingRetryables' = sort(pendingRetryables)
  /\ redeemedRetryables' = sort(redeemedRetryables)
  /\ stdout' = stdout \o PendingLines(pendingRetryables')
                      \o RedeemedLines(redeemedRetryables')
  /\ mainPc' = "exited"
  /\ exitCode' = 0
  /\ UNCHANGED <<envComplete, options, blockRange, logQueries,
                 inboxMessageDeliveredEvents, bridgeMessageDeliveredLogs, mapped,
                 pairs, lookups, stderr>>
  /\ UNCHANGED rollupVars

Next ==
  \/ CheckEnv
  \/ GetBlockNumber
  \/ GetInboxLogs
  \/ GetBridgeLogs
  \/ MapCallback
  \/ PromiseAll
  \/ RejectAll
  \/ \E i \in 1..Len(pairs) : ReceiveCreateReceipt(i)
  \/ \E i \in 1..Len(pairs) : ReceiveExecuteReceipt(i)
  \/ Report

Spec == Init /\ [][Next]_vars

\* ------------------------------------------------ main, with its options
\* Lines 507-512: fromBlock and toBlock as given on the command line, 0 when
\* left out
FromBlockChoices == {0, FirstBlock + 1}

ToBlockChoices == {0, FirstBlock + 1}

RangeInit ==
  /\ mainPc = "env"
  /\ envComplete \in BOOLEAN
  /\ options \in [fromBlock : FromBlockChoices, toBlock : ToBlockChoices]
  /\ blockRange = <<>>
  /\ logQueries = <<>>
  /\ inboxMessageDeliveredEvents = <<>>
  /\ bridgeMessageDeliveredLogs = <<>>
  /\ mapped = 0
  /\ pairs = <<>>
  /\ lookups = <<>>
  /\ pendingRetryables = <<>>
  /\ redeemedRetryables = <<>>
  /\ stdout = <<>>
  /\ stderr = <<>>
  /\ exitCode = NoExit
  /\ NoRollups

RangeSpec == RangeInit /\ [][Next]_vars

\* ------------------------------------------------- main, with scheduling
\* The pair whose receipt lookups may never return
StalledPair == 1

\* The step MapCallback takes, by its guard and its count of the callbacks
\* called: a step of main is one of MapCallback exactly when it is one of these
MapStep ==
  /\ mainPc = "map"
  /\ mapped < Len(inboxMessageDeliveredEvents)
  /\ mapped' = mapped + 1

\* The event loop runs every continuation that is ready: each step of main is
\* taken once it can be, and so is the continuation of every callback whose
\* lookup has returned.  The lookups of every pair but StalledPair return; those
\* of StalledPair may return or stay outstanding for ever.
Fairness ==
  /\ WF_vars(CheckEnv)
  /\ WF_vars(GetBlockNumber)
  /\ WF_vars(GetInboxLogs)
  /\ WF_vars(GetBridgeLogs)
  /\ WF_mapped(MapStep)
  /\ WF_vars(PromiseAll)
  /\ WF_vars(RejectAll)
  /\ WF_vars(Report)
  /\ \A i \in 1..MaxEvents :
       i # StalledPair =>
         /\ WF_vars(i \in 1..Len(pairs) /\ ReceiveCreateReceipt(i))
         /\ WF_vars(i \in 1..Len(pairs) /\ ReceiveExecuteReceipt(i))

FairSpec == Init /\ [][Next]_vars /\ Fairness

\* ------------------------------------------- one callback, any payload
\* The callback of a single delivery event, over the payloads, senders, base
\* fees and sequence numbers a parent chain can hold: the state is that of main
\* after both getLogs calls.
NumberChoices == {0, 1, MaxNumber - 1, MaxNumber}

\* Byte values used for call data: a zero byte and a non-zero byte
CallDataBytes == {0, NonZeroByte}

CallDataChoices == SeqsUpTo(CallDataBytes, MaxCallData)

BytesToDigits(bytes) ==
  [j \in 1..(2 * Len(bytes)) |->
     IF j % 2 = 1 THEN bytes[(j + 1) \div 2] \div 16 ELSE bytes[j \div 2] % 16]

\* Nine words and the call data, as Inbox.sol's abi.encodePacked lays them out
Payload(words, callData) ==
  Hex(Flatten([k \in 1..FieldCount |-> Slot(words[k])]) \o BytesToDigits(callData))

\* The words of WellFormedData; word 9 is the call data's length
BaseWords == <<13, 7, 1, 256, 14, 15, 21000, 5, 0>>

\* The lengths a payload may declare for call data of n bytes: the true one, one
\* byte more, and more than the whole payload holds
DeclaredLengths(n) == {n, n + 1, n + FieldCount * SlotBytes + 2}

\* The base words with one word replaced: a number, or an address of all zeros
WordChoices ==
  {BaseWords}
    \cup {[BaseWords EXCEPT ![k] = v] : k \in {2, 3, 4, 7, 8}, v \in NumberChoices}
    \cup {[BaseWords EXCEPT ![k] = 0] : k \in {1, 5, 6}}

PayloadChoices ==
  {TruncatedData}
    \cup UNION {{Payload([words EXCEPT ![FieldCount] = declared], callData) :
                   words \in WordChoices,
                   declared \in DeclaredLengths(Len(callData))} :
                 callData \in CallDataChoices}

SenderChoices == {SenderAddress, pad(toHex(0), AddressBytes)}

CallbackInit ==
  /\ mainPc = "map"
  /\ envComplete = TRUE
  /\ options = [fromBlock |-> 0, toBlock |-> 0]
  /\ blockRange = <<Earliest, ChainHead>>
  /\ logQueries = <<[event |-> "InboxMessageDelivered", fromBlock |-> Earliest,
                     toBlock |-> ChainHead],
                    [event |-> "MessageDelivered", fromBlock |-> Earliest,
                     toBlock |-> ChainHead]>>
  /\ \E messageNum \in NumberChoices, data \in PayloadChoices :
       inboxMessageDeliveredEvents =
         <<[messageNum |-> messageNum, data |-> data,
            transactionHash |-> ParentTransactionHash(1),
            blockNumber |-> FirstBlock]>>
  /\ \E sender \in SenderChoices, baseFeeL1 \in {0, 1} :
       bridgeMessageDeliveredLogs =
         <<[messageIndex |-> inboxMessageDeliveredEvents[1].messageNum,
            kind |-> RetryableKind, sender |-> sender, baseFeeL1 |-> baseFeeL1]>>
  /\ mapped = 0
  /\ pairs = <<[pc |-> "notCalled", messageData |-> <<>>,
                createRetryableTransactionHash |-> <<>>,
                executeRetryableTransactionHash |-> <<>>]>>
  /\ lookups = <<>>
  /\ pendingRetryables = <<>>
  /\ redeemedRetryables = <<>>
  /\ stdout = <<[line |-> "banner", blockFrom |-> Earliest, blockTo |-> ChainHead]>>
  /\ stderr = <<>>
  /\ exitCode = NoExit
  /\ NoRollups

CallbackNext == MapCallback

CallbackSpec == CallbackInit /\ [][CallbackNext]_vars

\* ================================================== scripts/find-rollups
\* ------------------------------------------------------ src/utils.ts
MainnetId == 1

SepoliaId == 11155111

blockCountToSearchRecentEventsOnEth == 6912

blockCountToSearchRecentEventsOnArb == 345600

defaultBlockCountToSearchRecentEventsOnEth == 800

\* Lines 70-85
getBlockToSearchEventsFrom(chainId, toBlock, useCustomRpc) ==
  LET isArbitrumChain == chainId \notin {MainnetId, SepoliaId}
      blockLimit == IF isArbitrumChain THEN blockCountToSearchRecentEventsOnArb
                    ELSE IF useCustomRpc THEN blockCountToSearchRecentEventsOnEth
                    ELSE defaultBlockCountToSearchRecentEventsOnEth
  IN  toBlock - blockLimit

\* --------------------------------------------------- the environment
supportedChainIds == <<1, 42161, 42170>>

SequencerInboxUpdatedEventTopic == [keccak256 |-> <<8>>]

SequencerInboxAddress == pad(toHex(33), AddressBytes)

RollupAddress == pad(toHex(34), AddressBytes)

\* SequencerInboxUpdated(address newSequencerInbox): the argument is not indexed
SequencerInboxUpdatedLog ==
  [topics |-> <<SequencerInboxUpdatedEventTopic>>, data |-> SequencerInboxAddress]

\* The receipt of a transaction that created a rollup: with the log or without
RollupReceiptChoices ==
  {Receipt("success", <<OtherLog>>),
   Receipt("success", <<OtherLog, SequencerInboxUpdatedLog>>)}

\* How many blocks before the head a sequencer inbox delivered its last batch:
\* within every window of src/utils.ts, or before every one of them
BatchAgeChoices ==
  {defaultBlockCountToSearchRecentEventsOnEth, blockCountToSearchRecentEventsOnArb + 1}

\* The SequencerBatchDelivered logs of an inbox between two blocks
SequencerBatchDeliveredLogs(batchBlock, fromBlock, toBlock) ==
  IF fromBlock <= batchBlock /\ batchBlock <= toBlock
    THEN <<[eventName |-> "SequencerBatchDelivered", blockNumber |-> batchBlock]>>
    ELSE <<>>

\* The RollupInitialized logs of a parent chain from blockFrom on.  A node does
\* not promise an order of the logs it returns: the first log is of the later
\* of two blocks, the logs behind it of that block or of the earlier one.
RollupLogChoices(blockFrom) ==
  UNION {
    {[j \in 1..n |-> [args |-> [chainId |-> OrbitChainId + j],
                      transactionHash |-> [keccak256 |-> <<7, j>>],
                      blockNumber |-> blocks[j]]] :
       blocks \in {b \in [1..n -> {RollupsFromBlock, RollupsFromBlock + 1}] :
                     /\ \A j \in 1..n : blockFrom <= b[j] /\ b[j] <= RollupsChainHead
                     /\ n > 0 => b[1] = RollupsFromBlock + 1}} :
    n \in 0..MaxRollups}

\* -------------------------------------------------------------- main
RollupsInit ==
  /\ mainPc = "rollups.getBlockNumber"
  /\ chainIndex = 1
  /\ ethRpc \in BOOLEAN
  /\ \E showInactive \in BOOLEAN, fromBlock \in {0, RollupsFromBlock} :
       options = [showInactive |-> showInactive,
                  fromBlockEth |-> fromBlock,
                  fromBlockArbOne |-> fromBlock,
                  fromBlockArbNova |-> fromBlock]
  /\ blockRange = <<>>
  /\ rollupInitializedEvents = <<>>
  /\ rollupsInformation = <<>>
  /\ stdout = <<>>
  /\ stderr = <<>>
  /\ exitCode = NoExit
  /\ envComplete = TRUE
  /\ logQueries = <<>>
  /\ inboxMessageDeliveredEvents = <<>>
  /\ bridgeMessageDeliveredLogs = <<>>
  /\ mapped = 0
  /\ pairs = <<>>
  /\ lookups = <<>>
  /\ pendingRetryables = <<>>
  /\ redeemedRetryables = <<>>

chainId == supportedChainIds[chainIndex]

\* Line 592
useCustomRPC == chainId = MainnetId /\ ethRpc

\* Lines 599-616
fromBlockOfOptions ==
  LET option == IF chainId = supportedChainIds[1] THEN options.fromBlockEth
                ELSE IF chainId = supportedChainIds[2] THEN options.fromBlockArbOne
                ELSE options.fromBlockArbNova
  IN  IF option > 0 THEN option ELSE 0

\* Lines 619-621
RollupsGetBlockNumber ==
  /\ mainPc = "rollups.getBlockNumber"
  /\ LET currentParentChainBlock == RollupsChainHead
         blockFrom == IF fromBlockOfOptions > 0 THEN fromBlockOfOptions ELSE Earliest
     IN  blockRange' = <<blockFrom, currentParentChainBlock>>
  /\ mainPc' = "rollups.getLogs"
  /\ UNCHANGED <<options, stdout, stderr, exitCode, rollupVars, retryableVars>>

\* Lines 624-636: the logs arrive and map calls every callback, each up to its
\* await of the transaction receipt
RollupsGetLogs ==
  /\ mainPc = "rollups.getLogs"
  /\ \E events \in RollupLogChoices(blockRange[1]) :
       /\ rollupInitializedEvents' = events
       /\ rollupsInformation' =
            [j \in 1..Len(events) |->
               [pc |-> "awaitReceipt",
                rollupInformation |->
                  [chainId |-> events[j].args.chainId,
                   transactionHash |-> events[j].transactionHash,
                   createdAtBlock |-> events[j].blockNumber,
                   rollupAddress |-> <<>>,
                   sequencerInboxAddress |-> <<>>,
                   isActive |-> <<>>],
                transactionReceipt |-> <<>>,
                currentBlock |-> <<>>,
                sequencerBatchDeliveredEventLogs |-> <<>>]]
  /\ mainPc' = "rollups.await"
  /\ UNCHANGED <<options, blockRange, stdout, stderr, exitCode, chainIndex, ethRpc,
                 retryableVars>>

\* Lines 722-727: a call that throws rejects the callback, Promise.all and main;
\* the caller's catch prints the error and exits 1
RollupCallThrows(j) ==
  /\ rollupsInformation' = [rollupsInformation EXCEPT ![j].pc = "rejected"]
  /\ mainPc' = "exited"
  /\ stderr' = Append(stderr, [error |-> "call failed", pair |-> j])
  /\ exitCode' = 1

\* SequencerInboxUpdatedLogs looking at the receipt's first log only
SequencerInboxUpdatedFirstLogOnly(logs) ==
  IF logs # <<>> /\ logs[1].topics[1] = SequencerInboxUpdatedEventTopic
    THEN <<logs[1]>> ELSE <<>>

\* Lines 649-651
SequencerInboxUpdatedLogs(logs) ==
  SelectSeq(logs, LAMBDA log : log.topics[1] = SequencerInboxUpdatedEventTopic)

\* Lines 644-661: the receipt of the creating transaction returns
ReceiveRollupReceipt(j) ==
  /\ mainPc = "rollups.await"
  /\ rollupsInformation[j].pc = "awaitReceipt"
  /\ \/ RollupCallThrows(j)
     \/ /\ \E transactionReceipt \in RollupReceiptChoices :
              LET found == SequencerInboxUpdatedLogs(transactionReceipt.logs)
              IN  rollupsInformation' =
                    IF found = <<>>
                      THEN [rollupsInformation EXCEPT
                              ![j].pc = "resolved",
                              ![j].transactionReceipt = <<transactionReceipt>>]
                    ELSE [rollupsInformation EXCEPT
                            ![j].pc = "awaitRollup",
                            ![j].transactionReceipt = <<transactionReceipt>>,
                            ![j].rollupInformation.sequencerInboxAddress =
                               <<found[1].data>>]
        /\ UNCHANGED <<mainPc, stderr, exitCode>>
  /\ UNCHANGED <<options, blockRange, stdout, chainIndex, ethRpc,
                 rollupInitializedEvents, retryableVars>>

\* Lines 663-668: readContract of the inbox's rollup() returns
ReceiveRollupAddress(j) ==
  /\ mainPc = "rollups.await"
  /\ rollupsInformation[j].pc = "awaitRollup"
  /\ \/ RollupCallThrows(j)
     \/ /\ rollupsInformation' =
             [rollupsInformation EXCEPT
                ![j].pc = "awaitBlock",
                ![j].rollupInformation.rollupAddress = <<RollupAddress>>]
        /\ UNCHANGED <<mainPc, stderr, exitCode>>
  /\ UNCHANGED <<options, blockRange, stdout, chainIndex, ethRpc,
                 rollupInitializedEvents, retryableVars>>

\* Line 671: the callback's own getBlockNumber returns
ReceiveCurrentBlock(j) ==
  /\ mainPc = "rollups.await"
  /\ rollupsInformation[j].pc = "awaitBlock"
  /\ \/ RollupCallThrows(j)
     \/ /\ rollupsInformation' =
             [rollupsInformation EXCEPT ![j].pc = "awaitEvents",
                                        ![j].currentBlock = <<RollupsChainHead>>]
        /\ UNCHANGED <<mainPc, stderr, exitCode>>
  /\ UNCHANGED <<options, blockRange, stdout, chainIndex, ethRpc,
                 rollupInitializedEvents, retryableVars>>

\* Lines 672-680: getContractEvents returns the inbox's batches of the window
ReceiveBatchEvents(j) ==
  /\ mainPc = "rollups.await"
  /\ rollupsInformation[j].pc = "awaitEvents"
  /\ \/ RollupCallThrows(j)
     \/ /\ \E age \in BatchAgeChoices :
              LET currentBlock == rollupsInformation[j].currentBlock[1]
                  fromBlock == getBlockToSearchEventsFrom(chainId, currentBlock,
                                                          useCustomRPC)
                  sequencerBatchDeliveredEventLogs ==
                    SequencerBatchDeliveredLogs(currentBlock - age, fromBlock,
                                                currentBlock)
              IN  rollupsInformation' =
                    [rollupsInformation EXCEPT
                       ![j].pc = "resolved",
                       ![j].sequencerBatchDeliveredEventLogs =
                          <<sequencerBatchDeliveredEventLogs>>,
                       ![j].rollupInformation.isActive =
                          <<Len(sequencerBatchDeliveredEventLogs) > 0>>]
        /\ UNCHANGED <<mainPc, stderr, exitCode>>
  /\ UNCHANGED <<options, blockRange, stdout, chainIndex, ethRpc,
                 rollupInitializedEvents, retryableVars>>

\* rollupsToShow taking every rollup that is not known to be inactive
rollupsToShowUnlessInactive(information) ==
  IF options.showInactive THEN information
  ELSE SelectSeq(information,
                 LAMBDA rollupInformation : rollupInformation.isActive # <<FALSE>>)

\* Lines 687-690: filter keeps the entries whose isActive is true; one that was
\* never set is undefined
rollupsToShow(information) ==
  IF options.showInactive THEN information
  ELSE SelectSeq(information,
                 LAMBDA rollupInformation : rollupInformation.isActive = <<TRUE>>)

\* Line 698: sort with (a, b) => Number(a.createdAtBlock - b.createdAtBlock)
RECURSIVE InsertByCreatedAtBlock(_, _)
InsertByCreatedAtBlock(sorted, entry) ==
  IF sorted = <<>> THEN <<entry>>
  ELSE IF entry.createdAtBlock - sorted[Len(sorted)].createdAtBlock < 0
    THEN Append(InsertByCreatedAtBlock(SubSeq(sorted, 1, Len(sorted) - 1), entry),
                sorted[Len(sorted)])
  ELSE Append(sorted, entry)

RECURSIVE sortByCreatedAtBlock(_)
sortByCreatedAtBlock(array) ==
  IF array = <<>> THEN <<>>
  ELSE InsertByCreatedAtBlock(sortByCreatedAtBlock(SubSeq(array, 1, Len(array) - 1)),
                              array[Len(array)])

\* Lines 683-707: Promise.all gives the callbacks' results in the order of the
\* events; the chain's rollups are printed and the loop goes on, or main ends
\* and the caller's then() exits 0
RollupsReport ==
  /\ mainPc = "rollups.await"
  /\ \A j \in 1..Len(rollupsInformation) : rollupsInformation[j].pc = "resolved"
  /\ LET information == [j \in 1..Len(rollupsInformation) |->
                           rollupsInformation[j].rollupInformation]
         shown == sortByCreatedAtBlock(rollupsToShow(information))
     IN  stdout' = stdout
                     \o <<[line |-> "Rollups in chainId", chainId |-> chainId,
                           blockFrom |-> blockRange[1], blockTo |-> blockRange[2]]>>
                     \o [k \in 1..Len(shown) |->
                           [line |-> "rollup", chainId |-> chainId,
                            rollupInformation |-> shown[k]]]
                     \o <<[line |-> "Found rollups", chainId |-> chainId,
                           count |-> Len(shown)]>>
  /\ IF chainIndex < Len(supportedChainIds)
       THEN /\ chainIndex' = chainIndex + 1
            /\ mainPc' = "rollups.getBlockNumber"
            /\ UNCHANGED exitCode
       ELSE /\ mainPc' = "exited"
            /\ exitCode' = 0
            /\ UNCHANGED chainIndex
  /\ UNCHANGED <<options, blockRange, stderr, ethRpc, rollupInitializedEvents,
                 rollupsInformation, retryableVars>>

RollupsNext ==
  \/ RollupsGetBlockNumber
  \/ RollupsGetLogs
  \/ \E j \in 1..Len(rollupsInformation) : ReceiveRollupReceipt(j)
  \/ \E j \in 1..Len(rollupsInformation) : ReceiveRollupAddress(j)
  \/ \E j \in 1..Len(rollupsInformation) : ReceiveCurrentBlock(j)
  \/ \E j \in 1..Len(rollupsInformation) : ReceiveBatchEvents(j)
  \/ RollupsReport

RollupsSpec == RollupsInit /\ [][RollupsNext]_vars

\* ================================================================ claims
Pairs == 1..Len(pairs)

LookupsOf(i) == SelectSeq(lookups, LAMBDA l : l.pair = i)

\* The entries of a group that carry the transaction hash of delivery event i
PendingOf(i) ==
  {j \in 1..Len(pendingRetryables) :
     pendingRetryables[j].parentChainTransactionHash =
       inboxMessageDeliveredEvents[i].transactionHash}

RedeemedOf(i) ==
  {j \in 1..Len(redeemedRetryables) :
     redeemedRetryables[j].parentChainTransactionHash =
       inboxMessageDeliveredEvents[i].transactionHash}

StatusesOf(i) == {pendingRetryables[j].status : j \in PendingOf(i)}

ExecuteHashesOf(i) ==
  {pendingRetryables[j].orbitChainExecuteTransactionHash : j \in PendingOf(i)}

ErrorsOf(i) == {j \in 1..Len(stderr) : stderr[j].pair = i}

CreateAnswered(i) ==
  Len(LookupsOf(i)) >= 1 /\ LookupsOf(i)[1].answer # Outstanding

IsReceipt(answer) == answer.kind = "receipt"

HasRedeemScheduled(logs) ==
  \E j \in 1..Len(logs) : logs[j].topics[1] = RedeemScheduledEventTopic

FirstRedeemScheduled(logs) ==
  logs[SetMin({j \in 1..Len(logs) : logs[j].topics[1] = RedeemScheduledEventTopic})]

ReportedStatuses ==
  {<<stdout[j].retryable.parentChainTransactionHash, stdout[j].retryable.status>> :
     j \in {k \in 1..Len(stdout) : stdout[k].line = "pending"}}

ReportedRedeemed ==
  {stdout[j].parentChainTransactionHash :
     j \in {k \in 1..Len(stdout) : stdout[k].line = "redeemed"}}

Finished == mainPc = "exited" /\ exitCode = 0 /\ envComplete

\* C1: a create lookup that reports the receipt absent leaves its pair with
\* exactly one entry, in the pending group, of status NOT_CREATED; the callback
\* resolves (no error is raised for the pair) and the pair issues no second lookup.
C1_AbsentIsNotCreated ==
  \A i \in Pairs :
    (CreateAnswered(i) /\ LookupsOf(i)[1].answer = Absent) =>
      /\ LookupsOf(i)[1].hash = pairs[i].createRetryableTransactionHash[1]
      /\ Cardinality(PendingOf(i)) = 1
      /\ StatusesOf(i) = {"NOT_CREATED"}
      /\ RedeemedOf(i) = {}
      /\ pairs[i].pc = "resolved"
      /\ ErrorsOf(i) = {}
      /\ Len(LookupsOf(i)) = 1

C1_Witness ==
  /\ Finished
  /\ \E i \in Pairs :
       /\ CreateAnswered(i) /\ LookupsOf(i)[1].answer = Absent
       /\ <<inboxMessageDeliveredEvents[i].transactionHash, "NOT_CREATED">>
            \in ReportedStatuses

\* C2: a create receipt whose status is not success makes the pair CREATE_FAILED
\* whatever its logs are, a RedeemScheduled log included, and the pair's execute
\* receipt is never looked up.
C2_FailedCreateWinsOverLogs ==
  \A i \in Pairs :
    (CreateAnswered(i) /\ IsReceipt(LookupsOf(i)[1].answer)
       /\ LookupsOf(i)[1].answer.status # "success") =>
      /\ Cardinality(PendingOf(i)) = 1
      /\ StatusesOf(i) = {"CREATE_FAILED"}
      /\ RedeemedOf(i) = {}
      /\ Len(LookupsOf(i)) = 1
      /\ pairs[i].executeRetryableTransactionHash = <<>>

C2_Witness ==
  /\ Finished
  /\ \E i \in Pairs :
       /\ CreateAnswered(i) /\ IsReceipt(LookupsOf(i)[1].answer)
       /\ LookupsOf(i)[1].answer.status = "reverted"
       /\ HasRedeemScheduled(LookupsOf(i)[1].answer.logs)
       /\ <<inboxMessageDeliveredEvents[i].transactionHash, "CREATE_FAILED">>
            \in ReportedStatuses

\* C3: with a successful create receipt, the pair is NOT_AUTOREDEEMED exactly when
\* no log of the receipt, at any position, has the RedeemScheduled signature hash
\* as its first topic.
C3_NotAutoredeemedIffNoRedeemLog ==
  \A i \in Pairs :
    (CreateAnswered(i) /\ IsReceipt(LookupsOf(i)[1].answer)
       /\ LookupsOf(i)[1].answer.status = "success") =>
      /\ ("NOT_AUTOREDEEMED" \in StatusesOf(i))
           <=> ~HasRedeemScheduled(LookupsOf(i)[1].answer.logs)
      /\ HasRedeemScheduled(LookupsOf(i)[1].answer.logs) => Len(LookupsOf(i)) = 2

\* a RedeemScheduled log that is the last log, behind a log of another event
C3_Witness ==
  \E i \in Pairs :
    /\ CreateAnswered(i) /\ IsReceipt(LookupsOf(i)[1].answer)
    /\ LookupsOf(i)[1].answer.status = "success"
    /\ Len(LookupsOf(i)[1].answer.logs) = 2
    /\ LookupsOf(i)[1].answer.logs[1] = OtherLog
    /\ HasRedeemScheduled(LookupsOf(i)[1].answer.logs)
    /\ Len(LookupsOf(i)) = 2
    /\ \E k \in Pairs : "NOT_AUTOREDEEMED" \in StatusesOf(k)

AutoRedeemScheduled(i) ==
  /\ CreateAnswered(i) /\ IsReceipt(LookupsOf(i)[1].answer)
  /\ LookupsOf(i)[1].answer.status = "success"
  /\ HasRedeemScheduled(LookupsOf(i)[1].answer.logs)

\* C4: after a successful create receipt with a RedeemScheduled log, the second
\* lookup asks for the retryTxHash of that log; an absent execute receipt makes
\* the pair AUTOREDEEM_CREATE_FAILED and a failed one AUTOREDEEM_FAILED, and in
\* both cases the pair's one entry is in the pending group and carries that hash.
C4_ExecuteLookupAndFailures ==
  \A i \in Pairs :
    AutoRedeemScheduled(i) =>
      /\ Len(LookupsOf(i)) = 2
      /\ LookupsOf(i)[2].hash =
           FirstRedeemScheduled(LookupsOf(i)[1].answer.logs).topics[3]
      /\ LookupsOf(i)[2].answer = Absent =>
           StatusesOf(i) = {"AUTOREDEEM_CREATE_FAILED"}
      /\ (IsReceipt(LookupsOf(i)[2].answer)
            /\ LookupsOf(i)[2].answer.status # "success") =>
           StatusesOf(i) = {"AUTOREDEEM_FAILED"}
      /\ (\/ LookupsOf(i)[2].answer = Absent
          \/ (IsReceipt(LookupsOf(i)[2].answer)
                /\ LookupsOf(i)[2].answer.status # "success")) =>
           /\ Cardinality(PendingOf(i)) = 1
           /\ RedeemedOf(i) = {}
           /\ ExecuteHashesOf(i) = {<<LookupsOf(i)[2].hash>>}

C4_Witness ==
  /\ Finished
  /\ \E i, k \in Pairs :
       /\ AutoRedeemScheduled(i) /\ AutoRedeemScheduled(k)
       /\ LookupsOf(i)[2].answer = Absent
       /\ <<inboxMessageDeliveredEvents[i].transactionHash,
            "AUTOREDEEM_CREATE_FAILED">> \in ReportedStatuses
       /\ IsReceipt(LookupsOf(k)[2].answer)
       /\ <<inboxMessageDeliveredEvents[k].transactionHash,
            "AUTOREDEEM_FAILED">> \in ReportedStatuses

\* The first accounting event with delivery event i's sequence number is of kind 9
FirstMatchIsRetryable(i) ==
  \E j \in 1..Len(bridgeMessageDeliveredLogs) :
    /\ bridgeMessageDeliveredLogs[j].messageIndex =
         inboxMessageDeliveredEvents[i].messageNum
    /\ bridgeMessageDeliveredLogs[j].kind = RetryableKind
    /\ \A h \in 1..(j - 1) :
         bridgeMessageDeliveredLogs[h].messageIndex #
           inboxMessageDeliveredEvents[i].messageNum

BothLookupsSucceeded(i) ==
  /\ i <= mapped
  /\ FirstMatchIsRetryable(i)
  /\ AutoRedeemScheduled(i)
  /\ Len(LookupsOf(i)) = 2
  /\ IsReceipt(LookupsOf(i)[2].answer)
  /\ LookupsOf(i)[2].answer.status = "success"

\* C5: a pair is in the redeemed group exactly when its accounting kind is 9, its
\* create receipt succeeded and held a RedeemScheduled log, and the execute
\* receipt that log names succeeded; no pair is in both groups, and only such
\* pairs are printed as redeemed.
C5_RedeemedIffBothSucceeded ==
  /\ \A i \in Pairs :
       /\ RedeemedOf(i) # {} <=> BothLookupsSucceeded(i)
       /\ ~(RedeemedOf(i) # {} /\ PendingOf(i) # {})
       /\ inboxMessageDeliveredEvents[i].transactionHash \in ReportedRedeemed
            => BothLookupsSucceeded(i)
  /\ Len(redeemedRetryables) = Cardinality(UNION {RedeemedOf(i) : i \in Pairs})

C5_Witness ==
  /\ Finished
  /\ \E i, k \in Pairs :
       /\ BothLookupsSucceeded(i)
       /\ inboxMessageDeliveredEvents[i].transactionHash \in ReportedRedeemed
       /\ PendingOf(k) # {}

Range(seq) == {seq[j] : j \in 1..Len(seq)}

NumberOfMatches(i) ==
  Cardinality({j \in 1..Len(bridgeMessageDeliveredLogs) :
                 bridgeMessageDeliveredLogs[j].messageIndex =
                   inboxMessageDeliveredEvents[i].messageNum})

RetryableEvents == {i \in Pairs : FirstMatchIsRetryable(i)}

NoLookupErrored == \A k \in 1..Len(lookups) : lookups[k].answer # RpcError

\* Every delivery event has an accounting match and every retryable payload decodes
NoCallbackThrows ==
  \A i \in Pairs :
    /\ NumberOfMatches(i) >= 1
    /\ FirstMatchIsRetryable(i) =>
         ~parseMessageDataThrows(inboxMessageDeliveredEvents[i].data)

OneResultEach ==
  /\ \A i \in RetryableEvents :
       Cardinality(PendingOf(i)) + Cardinality(RedeemedOf(i)) = 1
  /\ Len(pendingRetryables) + Len(redeemedRetryables) = Cardinality(RetryableEvents)

FirstMatchIsOtherKind(i) ==
  \E j \in 1..Len(bridgeMessageDeliveredLogs) :
    /\ bridgeMessageDeliveredLogs[j].messageIndex =
         inboxMessageDeliveredEvents[i].messageNum
    /\ bridgeMessageDeliveredLogs[j].kind # RetryableKind
    /\ \A h \in 1..(j - 1) :
         bridgeMessageDeliveredLogs[h].messageIndex #
           inboxMessageDeliveredEvents[i].messageNum

\* C7: a delivery event whose accounting event is not of kind 9 is left out: its
\* callback resolves without an error, it has no entry in either group, no hash
\* is derived and no receipt is looked up for it, whatever its payload; and it
\* does not keep the retryable pairs of the run from being classified.
C7_OtherKindsAreSkipped ==
  /\ \A i \in Pairs :
       (i <= mapped /\ FirstMatchIsOtherKind(i)) =>
         /\ pairs[i].pc = "resolved"
         /\ PendingOf(i) = {}
         /\ RedeemedOf(i) = {}
         /\ LookupsOf(i) = <<>>
         /\ pairs[i].createRetryableTransactionHash = <<>>
         /\ ErrorsOf(i) = {}
  /\ Len(lookups) <= 2 * Cardinality(RetryableEvents)
  /\ (mainPc = "exited" /\ envComplete /\ NoLookupErrored /\ NoCallbackThrows) =>
       \A k \in RetryableEvents : PendingOf(k) \cup RedeemedOf(k) # {}

\* a skipped event with a truncated payload, ahead of a retryable one that is reported
C7_Witness ==
  /\ Finished
  /\ Len(pairs) = 2
  /\ FirstMatchIsOtherKind(1)
  /\ inboxMessageDeliveredEvents[1].data = TruncatedData
  /\ FirstMatchIsRetryable(2)
  /\ inboxMessageDeliveredEvents[2].transactionHash \in
       {stdout[j].retryable.parentChainTransactionHash :
          j \in {k \in 1..Len(stdout) : stdout[k].line = "pending"}}

\* C8 as the spec states it: a delivery event with no accounting event of its
\* sequence number, or with more than one, gets an error instead of a match.
C8_ExactlyOneMatchRequired ==
  \A i \in Pairs :
    (i <= mapped /\ NumberOfMatches(i) # 1) => pairs[i].pc = "rejected"

\* Nothing of the pair's own went wrong
Healthy(i) ==
  /\ FirstMatchIsRetryable(i)
  /\ ~parseMessageDataThrows(inboxMessageDeliveredEvents[i].data)
  /\ \A k \in 1..Len(LookupsOf(i)) : LookupsOf(i)[k].answer # RpcError

Reported(i) ==
  \/ inboxMessageDeliveredEvents[i].transactionHash \in ReportedRedeemed
  \/ \E st \in {"NOT_CREATED", "CREATE_FAILED", "NOT_AUTOREDEEMED",
                "AUTOREDEEM_CREATE_FAILED", "AUTOREDEEM_FAILED"} :
        <<inboxMessageDeliveredEvents[i].transactionHash, st>> \in ReportedStatuses

\* C9 as the spec states it: when the run has ended, every pair whose own
\* decoding and lookups were healthy has been classified and is in the report,
\* whatever happened to its siblings.
C9_ErrorsAreIsolated ==
  mainPc = "exited" => \A i \in Pairs : Healthy(i) => Reported(i)

\* C10 as the spec states it: when the run has ended, every pair whose
\* classification ended in an error has a record of its failure in the output,
\* and every other retryable pair has its status there.
C10_FailuresAreReported ==
  mainPc = "exited" =>
    \A i \in Pairs :
      /\ Rejected(i) => ErrorsOf(i) # {}
      /\ ((\E k \in Pairs : Rejected(k)) /\ Healthy(i)) => Reported(i)

\* The report has begun: its line that heads the redeemed group is printed
ReportStarted ==
  \E k \in 1..Len(stdout) : stdout[k].line = "Retryables successfully redeemed"

NoOutstandingLookup(i) ==
  \A k \in 1..Len(lookups) : lookups[k].pair = i => lookups[k].answer # Outstanding

\* C11: the report starts only when every callback has run to its end: once a
\* report line is printed every pair is resolved and no lookup is outstanding; a
\* pair with an entry in a group has finished its lookup chain; the step that
\* starts the report is taken from a state in which all pairs are resolved; and
\* after the report has started no group changes.
C11_JoinBarrier ==
  /\ [](ReportStarted =>
          \A i \in Pairs : pairs[i].pc = "resolved" /\ NoOutstandingLookup(i))
  /\ [](\A i \in Pairs :
          (PendingOf(i) \cup RedeemedOf(i) # {}) =>
            pairs[i].pc = "resolved" /\ NoOutstandingLookup(i))
  /\ [][ /\ (~ReportStarted /\ ReportStarted') =>
              \A i \in Pairs : pairs[i].pc = "resolved"
         /\ ReportStarted =>
              /\ pendingRetryables' = pendingRetryables
              /\ redeemedRetryables' = redeemedRetryables ]_vars

\* a report printed after two pairs finished chains of two lookups and one lookup
C11_Witness ==
  /\ ReportStarted
  /\ Len(pairs) = 2
  /\ Len(lookups) = 3
  /\ Len(pendingRetryables) + Len(redeemedRetryables) = 2

\* The lines of the report, group by group, in the order printed
PendingReported == SelectSeq(stdout, LAMBDA l : l.line = "pending")

RedeemedReported == SelectSeq(stdout, LAMBDA l : l.line = "redeemed")

\* The delivery event a printed transaction hash belongs to
EventOf(transactionHash) ==
  CHOOSE i \in Pairs : inboxMessageDeliveredEvents[i].transactionHash = transactionHash

PendingReportedEvents ==
  [j \in 1..Len(PendingReported) |->
     EventOf(PendingReported[j].retryable.parentChainTransactionHash)]

RedeemedReportedEvents ==
  [j \in 1..Len(RedeemedReported) |->
     EventOf(RedeemedReported[j].parentChainTransactionHash)]

AscendingByBlock(events) ==
  \A j \in 1..(Len(events) - 1) :
    inboxMessageDeliveredEvents[events[j]].blockNumber
      <= inboxMessageDeliveredEvents[events[j + 1]].blockNumber

\* C12: in the report each group is printed in ascending order of submission
\* block: of two adjacent lines of a group the earlier one's block is not the
\* greater; the printed lines of a group are the group's entries, all of them,
\* and each pending line shows the block of its own delivery event.
C12_ReportAscendingByBlock ==
  /\ AscendingByBlock(PendingReportedEvents)
  /\ AscendingByBlock(RedeemedReportedEvents)
  /\ \A j \in 1..Len(PendingReported) :
       PendingReported[j].retryable.submittedAtBlock =
         inboxMessageDeliveredEvents[PendingReportedEvents[j]].blockNumber
  /\ ReportStarted =>
       /\ [j \in 1..Len(PendingReported) |-> PendingReported[j].retryable]
            = pendingRetryables
       /\ Range(RedeemedReportedEvents) = {i \in Pairs : RedeemedOf(i) # {}}
       /\ Len(RedeemedReported) = Len(redeemedRetryables)

\* two pending lines of different blocks
C12_Witness ==
  /\ Finished
  /\ Len(PendingReported) = 2
  /\ PendingReported[1].retryable.submittedAtBlock
       < PendingReported[2].retryable.submittedAtBlock

TiesInDiscoveryOrder(events) ==
  \A j \in 1..(Len(events) - 1) :
    inboxMessageDeliveredEvents[events[j]].blockNumber
        = inboxMessageDeliveredEvents[events[j + 1]].blockNumber
      => events[j] < events[j + 1]

\* C13 as the spec states it: of two adjacent lines of a group with the same
\* submission block, the earlier line is that of the delivery event that comes
\* earlier in the fetched events.
C13_TiesInDiscoveryOrder ==
  /\ TiesInDiscoveryOrder(PendingReportedEvents)
  /\ TiesInDiscoveryOrder(RedeemedReportedEvents)

\* ------------------------------------------ reading a derived hash back
\* The value of a byte string read as a big-endian number
RECURSIVE SignificantBytesValue(_)
SignificantBytesValue(bytes) ==
  IF Len(bytes) = 0 THEN 0
  ELSE SignificantBytesValue(SubSeq(bytes, 1, Len(bytes) - 1)) * 256 + bytes[Len(bytes)]

BytesValue(bytes) ==
  LET nonzero == {j \in 1..Len(bytes) : bytes[j] # 0}
  IN  IF nonzero = {} THEN 0
      ELSE SignificantBytesValue(SubSeq(bytes, SetMin(nonzero), Len(bytes)))

\* The items of an RLP list's payload, in order
RECURSIVE RlpItems(_)
RlpItems(payload) ==
  IF payload = <<>> THEN <<>>
  ELSE LET b == payload[1]
           header == IF b < 128 THEN 0 ELSE IF b <= 183 THEN 1 ELSE 1 + (b - 183)
           length == IF b < 128 THEN 1
                     ELSE IF b <= 183 THEN b - 128
                     ELSE BytesValue(SubSeq(payload, 2, 1 + (b - 183)))
       IN  <<SubSeq(payload, header + 1, header + length)>>
             \o RlpItems(SubSeq(payload, header + length + 1, Len(payload)))

\* The payload of an encoded RLP list
RlpListPayload(encoded) ==
  IF encoded[1] <= 247 THEN SubSeq(encoded, 2, Len(encoded))
  ELSE SubSeq(encoded, 2 + (encoded[1] - 247), Len(encoded))

Hashed(i) == pairs[i].createRetryableTransactionHash # <<>>

HashPreimage(i) == pairs[i].createRetryableTransactionHash[1].keccak256

\* The byte strings that were RLP-encoded into pair i's create hash
HashedFields(i) == RlpItems(RlpListPayload(Tail(HashPreimage(i))))

\* The accounting event the callback of delivery event i takes
MatchedAccountingEvent(i) ==
  MatchingBridgeLogs(inboxMessageDeliveredEvents[i].messageNum)[1]

\* C14 as the spec states it: in every derived hash the sequence number is a
\* field of exactly 32 bytes, whose value is the sequence number.
C14_SequenceNumberIs32Bytes ==
  \A i \in Pairs :
    Hashed(i) =>
      /\ Len(HashedFields(i)[2]) = SlotBytes
      /\ BytesValue(HashedFields(i)[2]) = MatchedAccountingEvent(i).messageIndex

\* The least number of bytes that hold v
RECURSIVE ByteLength(_)
ByteLength(v) == IF v = 0 THEN 0 ELSE 1 + ByteLength(v \div 256)

IsMinimalBigEndian(bytes, v) ==
  /\ Len(bytes) = ByteLength(v)
  /\ BytesValue(bytes) = v
  /\ Len(bytes) > 0 => bytes[1] # 0

\* C15: in every derived hash the seven numeric fields other than the sequence
\* number (chain id, base fee, call value, max fee per gas, gas limit, child
\* call value, max submission fee) are the minimal big-endian bytes of their
\* values: no bytes for 0, the single byte 1 for 1, and for v > 0 as many bytes
\* as v needs, the first of them not 0.
C15_NumbersAreMinimalBigEndian ==
  \A i \in Pairs :
    Hashed(i) =>
      LET fields == HashedFields(i)
          messageData == pairs[i].messageData[1]
      IN  /\ IsMinimalBigEndian(fields[1], OrbitChainId)
          /\ IsMinimalBigEndian(fields[4], MatchedAccountingEvent(i).baseFeeL1)
          /\ IsMinimalBigEndian(fields[5], messageData.callValue)
          /\ IsMinimalBigEndian(fields[6], messageData.maxFeePerGas)
          /\ IsMinimalBigEndian(fields[7], messageData.gasLimit)
          /\ IsMinimalBigEndian(fields[9], messageData.orbitChainCallValue)
          /\ IsMinimalBigEndian(fields[11], messageData.maxSubmissionFee)
          /\ messageData.callValue = 1 => fields[5] = <<1>>

\* a hash over a base fee of 0, a call value of 1 and a max submission fee of
\* two bytes
C15_Witness ==
  \E i \in Pairs :
    /\ Hashed(i)
    /\ MatchedAccountingEvent(i).baseFeeL1 = 0
    /\ HashedFields(i)[4] = <<>>
    /\ pairs[i].messageData[1].callValue = 1
    /\ HashedFields(i)[5] = <<1>>
    /\ pairs[i].messageData[1].maxSubmissionFee = MaxNumber
    /\ Len(HashedFields(i)[11]) = 2

\* The bytes a string of hex digits spells
DigitsToBytes(digits) ==
  [j \in 1..(Len(digits) \div 2) |-> digits[2 * j - 1] * 16 + digits[2 * j]]

\* C16 as the spec states it: in every derived hash the sender, the
\* destination and the two refund addresses are fields of their 20 bytes, and
\* the call data is a field of the call data's bytes.
C16_AddressesAndCallDataAreRaw ==
  \A i \in Pairs :
    Hashed(i) =>
      LET fields == HashedFields(i)
          messageData == pairs[i].messageData[1]
      IN  /\ fields[3] = DigitsToBytes(Digits(MatchedAccountingEvent(i).sender))
          /\ fields[8] = DigitsToBytes(Digits(messageData.destAddress))
          /\ fields[10] = DigitsToBytes(Digits(messageData.callValueRefundAddress))
          /\ fields[12] = DigitsToBytes(Digits(messageData.excessFeeRefundAddress))
          /\ \A k \in {3, 8, 10, 12} : Len(fields[k]) = AddressBytes
          /\ (\A j \in 1..Len(Digits(messageData.data)) :
                 Digits(messageData.data)[j] # XChar) =>
               fields[13] = DigitsToBytes(Digits(messageData.data))

\* A byte string without its leading zero bytes
SignificantBytes(bytes) ==
  LET nonzero == {j \in 1..Len(bytes) : bytes[j] # 0}
  IN  IF nonzero = {} THEN <<>> ELSE SubSeq(bytes, SetMin(nonzero), Len(bytes))

\* C17: a derived create hash is the hash of the byte 0x69 followed by the RLP
\* encoding of a list of exactly 13 items, whose values are, in this order: the
\* child chain id; the sequence number, the sender and the base fee of the
\* pair's accounting event; then, of the pair's delivery payload, call value,
\* max fee per gas, gas limit, destination, child call value, call-value refund
\* address, max submission fee, excess-fee refund address and call data; and
\* the pair's create lookup asks for that hash.
C17_HashOfThirteenFields ==
  \A i \in Pairs :
    Hashed(i) =>
      LET fields == HashedFields(i)
          event == MatchedAccountingEvent(i)
          words == decodeAbiParameters(inboxMessageDeliveredEvents[i].data)
          data == Digits(pairs[i].messageData[1].data)
      IN  /\ HashPreimage(i)[1] = TxType
          /\ HashPreimage(i) = <<TxType>> \o toRlp(fields)
          /\ Len(fields) = 13
          /\ BytesValue(fields[1]) = OrbitChainId
          /\ BytesValue(fields[2]) = event.messageIndex
          /\ BytesValue(fields[3]) = HexToNat(Digits(event.sender))
          /\ BytesValue(fields[4]) = event.baseFeeL1
          /\ BytesValue(fields[5]) = words[3]
          /\ BytesValue(fields[6]) = words[8]
          /\ BytesValue(fields[7]) = words[7]
          /\ BytesValue(fields[8]) = words[1]
          /\ BytesValue(fields[9]) = words[2]
          /\ BytesValue(fields[10]) = words[6]
          /\ BytesValue(fields[11]) = words[4]
          /\ BytesValue(fields[12]) = words[5]
          /\ (\A j \in 1..Len(data) : data[j] # XChar) =>
               SignificantBytes(fields[13]) = SignificantBytes(DigitsToBytes(data))
          /\ LookupsOf(i)[1].hash = keccak256(HashPreimage(i))

\* a hash whose thirteen items are all different
C17_Witness ==
  \E i \in Pairs :
    /\ Hashed(i)
    /\ Len(HashedFields(i)) = 13
    /\ \A j, k \in 1..13 : j # k => HashedFields(i)[j] # HashedFields(i)[k]

\* The address a word holds: its low 20 bytes
AddressOfWord(word) ==
  Hex(SubSeq(Slot(word), (SlotBytes - AddressBytes) * 2 + 1, SlotBytes * 2))

\* C18: the callback of a payload built from nine words and then N bytes of
\* call data, the ninth word being N, decodes it to a record whose
\* callDataLength is N, whose call data is those N bytes (none for N = 0) and
\* whose other fields are the first eight words, in the order destination,
\* child call value, call value, max submission fee, excess-fee refund address,
\* call-value refund address, gas limit, max fee per gas.
C18_DecodeOfBuiltPayload ==
  \A i \in Pairs :
    i <= mapped =>
      \A callData \in CallDataChoices :
        Len(inboxMessageDeliveredEvents[i].data)
            = 2 + (FieldCount * SlotBytes + Len(callData)) * 2 =>
          \A words \in WordChoices :
            inboxMessageDeliveredEvents[i].data
                = Payload([words EXCEPT ![FieldCount] = Len(callData)], callData) =>
              pairs[i].messageData =
                <<[destAddress |-> AddressOfWord(words[1]),
                   orbitChainCallValue |-> words[2],
                   callValue |-> words[3],
                   maxSubmissionFee |-> words[4],
                   excessFeeRefundAddress |-> AddressOfWord(words[5]),
                   callValueRefundAddress |-> AddressOfWord(words[6]),
                   gasLimit |-> words[7],
                   maxFeePerGas |-> words[8],
                   callDataLength |-> Len(callData),
                   data |-> Hex(BytesToDigits(callData))]>>

\* a decoded payload with call data of two bytes, the first of them zero
C18_Witness ==
  \E i \in Pairs :
    /\ i <= mapped
    /\ inboxMessageDeliveredEvents[i].data
         = Payload([BaseWords EXCEPT ![FieldCount] = 2], <<0, NonZeroByte>>)
    /\ pairs[i].messageData # <<>>
    /\ pairs[i].messageData[1].callDataLength = 2
    /\ pairs[i].messageData[1].data = Hex(BytesToDigits(<<0, NonZeroByte>>))

\* The bytes of a payload behind its nine words
TrailingBytes(data) == (Len(Digits(data)) - FieldCount * SlotBytes * 2) \div 2

TooShort(data) ==
  \/ Len(Digits(data)) < FieldCount * SlotBytes * 2
  \/ TrailingBytes(data) < decodeAbiParameters(data)[FieldCount]

\* C19 as the spec states it: the callback of a retryable delivery event whose
\* payload is shorter than nine words, or holds fewer bytes behind them than
\* its ninth word declares, ends in an error and yields no decoded record and
\* no hash.
C19_MalformedPayloadIsRejected ==
  \A i \in Pairs :
    (i <= mapped /\ FirstMatchIsRetryable(i)
       /\ TooShort(inboxMessageDeliveredEvents[i].data)) =>
      /\ pairs[i].pc = "rejected"
      /\ pairs[i].messageData = <<>>
      /\ pairs[i].createRetryableTransactionHash = <<>>

\* ----------------------------------------------------------- find-rollups
\* The loop has printed a parent chain's rollups and not yet fetched the next
\* chain's events: rollupsInformation still holds that chain's callbacks
JustReported ==
  /\ \/ mainPc \in {"rollups.getBlockNumber", "rollups.getLogs"}
     \/ mainPc = "exited" /\ exitCode = 0
  /\ Len(stdout) > 0
  /\ stdout[Len(stdout)].line = "Found rollups"

\* The rollups printed for a parent chain, in the order printed
ShownOf(parentChainId) ==
  LET lines == SelectSeq(stdout, LAMBDA l : l.line = "rollup" /\ l.chainId = parentChainId)
  IN  [k \in 1..Len(lines) |-> lines[k].rollupInformation]

Discovered == 1..Len(rollupsInformation)

\* The creating transaction of rollup j has a SequencerInboxUpdated log and the
\* inbox has a SequencerBatchDelivered event in the window
FoundActive(j) ==
  /\ rollupsInformation[j].transactionReceipt # <<>>
  /\ \E k \in 1..Len(rollupsInformation[j].transactionReceipt[1].logs) :
       rollupsInformation[j].transactionReceipt[1].logs[k].topics[1]
         = SequencerInboxUpdatedEventTopic
  /\ rollupsInformation[j].sequencerBatchDeliveredEventLogs # <<>>
  /\ Len(rollupsInformation[j].sequencerBatchDeliveredEventLogs[1]) >= 1

\* C20: when find-rollups has printed a parent chain, the chain's callbacks are
\* those of its RollupInitialized events; with showInactive false the rollups
\* printed are exactly those whose creating transaction has a
\* SequencerInboxUpdated log and whose inbox has a batch in the window, with
\* showInactive true they are all discovered rollups; each is printed once, as
\* its callback left it, in ascending order of creation block, and the count
\* printed is the number of rollups printed.
C20_ShownRollups ==
  JustReported =>
    LET shown == ShownOf(stdout[Len(stdout)].chainId)
        expected == IF options.showInactive THEN Discovered
                    ELSE {j \in Discovered : FoundActive(j)}
    IN  /\ Len(rollupsInformation) = Len(rollupInitializedEvents)
        /\ \A j \in Discovered :
             rollupsInformation[j].rollupInformation.transactionHash
               = rollupInitializedEvents[j].transactionHash
        /\ Range(shown) = {rollupsInformation[j].rollupInformation : j \in expected}
        /\ Len(shown) = Cardinality(expected)
        /\ \A k \in 1..(Len(shown) - 1) :
             shown[k].createdAtBlock <= shown[k + 1].createdAtBlock
        /\ stdout[Len(stdout)].count = Len(shown)

\* the run ends without showInactive: the first parent chain showed two rollups
\* in the reverse of the order they were found in, the last one shows the active
\* one of two rollups and not the one without a SequencerInboxUpdated log
C20_Witness ==
  /\ mainPc = "exited" /\ exitCode = 0 /\ chainIndex = Len(supportedChainIds)
  /\ ~options.showInactive
  /\ Len(ShownOf(supportedChainIds[1])) = 2
  /\ ShownOf(supportedChainIds[1])[1].transactionHash = [keccak256 |-> <<7, 2>>]
  /\ ShownOf(supportedChainIds[1])[1].createdAtBlock
       < ShownOf(supportedChainIds[1])[2].createdAtBlock
  /\ Len(rollupsInformation) = 2
  /\ rollupsInformation[1].rollupInformation.isActive = <<>>
  /\ FoundActive(2)
  /\ Len(ShownOf(chainId)) = 1
  /\ stdout[Len(stdout)].count = 1

\* The delivery event callback i was called with
OwnEvent(i) == inboxMessageDeliveredEvents[i]

\* The create hash of pair i, from its own delivery event and the accounting
\* event matched to it
OwnCreateHash(i) ==
  calculateCreateRetryableTransactionHash(
    RetryableInformation(MatchingBridgeLogs(OwnEvent(i).messageNum)[1],
                         parseMessageData(OwnEvent(i).data)))

Returned(lookup) == lookup.answer # Outstanding /\ lookup.answer # RpcError

\* What the answers to pair i's own lookups, and nothing else, make of pair i:
\* no result yet, or one record in one group
OwnResult(i) ==
  LET own == LookupsOf(i)
  IN  IF own = <<>> \/ ~Returned(own[1]) THEN {}
      ELSE IF createStatus(own[1].answer) # "AUTOREDEEM"
        THEN {[group |-> "pending",
               record |-> [parentChainTransactionHash |-> OwnEvent(i).transactionHash,
                           submittedAtBlock |-> OwnEvent(i).blockNumber,
                           orbitChainCreateTransactionHash |-> OwnCreateHash(i),
                           orbitChainExecuteTransactionHash |-> <<>>,
                           status |-> createStatus(own[1].answer)]]}
      ELSE IF Len(own) < 2 \/ ~Returned(own[2]) THEN {}
      ELSE LET executeHash ==
                 <<RetryTxHash(RedeemScheduledLogs(own[1].answer.logs)[1])>>
           IN  IF executeStatus(own[2].answer) # "REDEEMED"
                 THEN {[group |-> "pending",
                        record |-> [parentChainTransactionHash |->
                                      OwnEvent(i).transactionHash,
                                    submittedAtBlock |-> OwnEvent(i).blockNumber,
                                    orbitChainCreateTransactionHash |-> OwnCreateHash(i),
                                    orbitChainExecuteTransactionHash |-> executeHash,
                                    status |-> executeStatus(own[2].answer)]]}
               ELSE {[group |-> "redeemed",
                      record |-> [parentChainTransactionHash |->
                                    OwnEvent(i).transactionHash,
                                  submittedAtBlock |-> OwnEvent(i).blockNumber,
                                  orbitChainCreateTransactionHash |-> OwnCreateHash(i),
                                  orbitChainExecuteTransactionHash |-> executeHash]]}

\* The two groups as they stand, order left aside
Grouped ==
  {[group |-> "pending", record |-> pendingRetryables[j]] :
     j \in 1..Len(pendingRetryables)}
    \cup {[group |-> "redeemed", record |-> redeemedRetryables[j]] :
            j \in 1..Len(redeemedRetryables)}

\* C21: whatever the order in which the lookups of different pairs complete, the
\* two groups hold exactly the records that each pair's own delivery event and
\* the answers to its own lookups determine, one record per pair that has a
\* result and none for the others; and the pending lines of a printed report
\* are those records.
C21_PairsAreIndependent ==
  LET own == UNION {OwnResult(i) : i \in Pairs}
  IN  /\ Grouped = own
      /\ Len(pendingRetryables) + Len(redeemedRetryables) = Cardinality(own)
      /\ Finished =>
           {PendingReported[j].retryable : j \in 1..Len(PendingReported)} =
             {g.record : g \in {r \in own : r.group = "pending"}}

\* a printed report of two pairs with results in different groups, the second
\* pair's create lookup having completed before the first pair's
C21_Witness ==
  /\ Finished
  /\ Len(lookups) = 4
  /\ lookups[3].pair = 2
  /\ lookups[4].pair = 1
  /\ Len(pendingRetryables) = 1
  /\ Len(redeemedRetryables) = 1

\* Callback i waits for the answer to a lookup
Awaiting(i) == pairs[i].pc = "awaitCreate" \/ pairs[i].pc = "awaitExecute"

NoLookupOutstanding ==
  \A k \in 1..Len(lookups) : lookups[k].answer # Outstanding

\* C22: whether or not the lookups of one pair ever return, every other pair
\* that waits for a lookup gets past it; once every callback has resolved the
\* report is printed; and a run with its environment set, in which no lookup
\* errors and every lookup returns, prints the report and ends.
C22_StallIsIsolated ==
  /\ \A i \in 1..MaxEvents :
       i # StalledPair =>
         ((i \in Pairs /\ Awaiting(i)) ~> (i \in Pairs /\ ~Awaiting(i)))
  /\ (mainPc = "await" /\ AllFulfilled) ~> ReportStarted
  /\ (envComplete /\ []NoLookupErrored /\ <>[]NoLookupOutstanding)
       => <>(ReportStarted /\ mainPc = "exited")

\* The lookup is for the create hash callback i derived
IsCreateLookupOf(lookup, i) ==
  /\ Hashed(i)
  /\ lookup.hash = pairs[i].createRetryableTransactionHash[1]

\* The lookup is for the execute hash that the answer to the create lookup names:
\* that answer is a success receipt with a RedeemScheduled log
IsExecuteLookupAfter(lookup, create) ==
  /\ IsReceipt(create.answer)
  /\ create.answer.status = "success"
  /\ HasRedeemScheduled(create.answer.logs)
  /\ lookup.hash = FirstRedeemScheduled(create.answer.logs).topics[3]

\* C23: a pair issues at most two receipt lookups, the first for its create hash
\* and the second for its execute hash; the second exists only when the first
\* has returned a success receipt with a RedeemScheduled log; the two hashes
\* differ, so no hash is looked up twice; only the last lookup of a pair can be
\* outstanding; and a lookup that has errored is the pair's last one, its
\* callback is rejected and the error is printed for it.
C23_NoRetryAndOrdered ==
  \A i \in Pairs :
    LET own == LookupsOf(i)
    IN  /\ Len(own) <= 2
        /\ Len(own) >= 1 => IsCreateLookupOf(own[1], i)
        /\ Len(own) = 2 =>
             /\ IsExecuteLookupAfter(own[2], own[1])
             /\ own[2].hash # own[1].hash
        /\ \A k \in 1..Len(own) :
             /\ own[k].answer = Outstanding => k = Len(own)
             /\ own[k].answer = RpcError =>
                  /\ k = Len(own)
                  /\ Rejected(i)
                  /\ ErrorsOf(i) # {}
                  /\ mainPc = "exited"

\* one pair has had both its lookups answered, and then the execute lookup of
\* another pair has errored
C23_Witness ==
  \E i, j \in Pairs :
    /\ i # j
    /\ Len(LookupsOf(i)) = 2
    /\ Returned(LookupsOf(i)[2])
    /\ Len(LookupsOf(j)) = 2
    /\ LookupsOf(j)[2].answer = RpcError

\* The range the options and the parent chain's head at the one reading give
RangeOfOptions ==
  <<IF options.fromBlock > 0 THEN options.fromBlock ELSE Earliest,
    IF options.toBlock > 0 THEN options.toBlock ELSE ChainHead>>

QueriedRange(query) == <<query.fromBlock, query.toBlock>>

\* C24: a run issues at most two log queries, first for the delivery events and
\* then for the accounting events, and both carry the range that the options
\* and the one reading of the parent chain's head give; the banner shows that
\* range.  With a variable of .env missing no block number is read, no log
\* query and no lookup is issued, and nothing but the notice is printed.
C24_OneRangeForBothQueries ==
  /\ Len(logQueries) <= 2
  /\ \A q \in 1..Len(logQueries) : QueriedRange(logQueries[q]) = RangeOfOptions
  /\ Len(logQueries) >= 1 => logQueries[1].event = "InboxMessageDelivered"
  /\ Len(logQueries) = 2 =>
       /\ logQueries[2].event = "MessageDelivered"
       /\ QueriedRange(logQueries[2]) = QueriedRange(logQueries[1])
  /\ blockRange # <<>> => blockRange = RangeOfOptions
  /\ ~envComplete =>
       /\ blockRange = <<>>
       /\ logQueries = <<>>
       /\ lookups = <<>>
       /\ ~ReportStarted
       /\ \A k \in 1..Len(stdout) : stdout[k].line = "Some variables are missing"
       /\ mainPc = "exited" => exitCode = 0

\* both queries issued in a run with a toBlock option below the chain's head and
\* no fromBlock option, and a delivery event found
C24_Witness ==
  /\ Len(logQueries) = 2
  /\ options.fromBlock = 0
  /\ options.toBlock > 0
  /\ options.toBlock < ChainHead
  /\ inboxMessageDeliveredEvents # <<>>
  /\ mainPc = "exited"

====
